---- MODULE Spec2Model ----
(***************************************************************************)
(* A model of kor_map: the choropleth map renderer KorMapChartES5 (and its *)
(* three KorMapChart variants).  Numbers of the program are real numbers;  *)
(* rates are modelled in tenths (0.8 is 8, 1.0 is One) and coordinates on  *)
(* an even grid, so that every division by two of the code is exact.       *)
(***************************************************************************)
EXTENDS Integers, Sequences, FiniteSets, TLC

VARIABLES
    \* ---- colour scale and painting (SpecColor)
    thresholds,     \* opts.rates as given by the caller (<<>>: omitted or empty)
    colors,         \* opts.colors as given by the caller (<<>>: omitted or empty)
    data,           \* opts.data: region name -> datum
    fill,           \* region name -> the fill painted on its path ("" before painting)
    colorPc,        \* "init" | "painted"
    \* ---- the svg surface and callout routing (SpecCallout)
    elems,          \* the names of codeMap whose code resolves to a path of the svg
    regionBox,      \* name -> getBBox() of its path
    unmapped,       \* bounding boxes of the svg's paths that no name of codeMap maps to
    viewBox,        \* the svg's viewBox attribute (NoAttr: none)
    calloutOpts,    \* opts.callouts
    bbox,           \* the frame handed to _buildCallouts (NoFrame before the first pass)
    group,          \* the callouts appended to the svg, in order
    passes,         \* how many times _buildCallouts ran on this svg
    vbLog,          \* the viewBox attribute as it was after each pass
    \* ---- one call of render (SpecRender)
    variant,        \* which file's render: "ES5", "p000" (strict), "p001", "p002" (lenient)
    opts,           \* opts.mode, opts.bar, opts.labels (opts.callouts is calloutOpts)
    mountOk,        \* whether _ensureMount resolves the mount
    mount,          \* the mount element: cleared, styled, its children
    loadStarted,    \* whether _loadSVG was called
    renderPc,       \* "idle" | "loading" | "done" | "failed"
    error,          \* the error render threw ("" when none)
    steps,          \* the steps render performed, in order
    labels,         \* the label texts appended to the svg
    bound,          \* the names whose path has enter/leave/click listeners
    winListeners,   \* how many click listeners render registered on window
    barRows,        \* the rows of the bar list appended to the mount
    calls,          \* the render calls made on one mount (SpecOverlap): their position and mode
    pieData,        \* opts.pieChartData and labelOpts.pieChart (SpecGlyph)
    pies,           \* the pie glyphs appended to the label layer, with their slices
    \* ---- the bound regions of one rendered map (Spec)
    ev,             \* opts.events and opts.innerCities
    style,          \* name -> the inline style of its path
    originalStyles, \* name -> p._originalStyles, the snapshot taken at bind
    selectedPath,   \* the selectedPath of _bindRegionEvents (NoPath: null)
    zorder,         \* the children of the paths' parent, bottom to top
    hover,          \* the regions entered and not left since
    selMark,        \* the regions selectRegion styled and deselectRegion has not restored
    lastEvent,      \* the event handled last
    callbacks,      \* the callbacks the last event invoked
    prevSelected,   \* selectedPath as it was when the last event arrived
    prevStyle,      \* the inline style the last event's region had when the event arrived
    focused         \* the region that has keyboard focus (NoPath: none)

colorVars == <<thresholds, colors, data, fill, colorPc>>
calloutVars == <<elems, regionBox, unmapped, viewBox, calloutOpts, bbox, group, passes, vbLog>>

renderVars == <<variant, opts, mountOk, mount, loadStarted, renderPc, error, steps,
                labels, bound, winListeners, barRows, calls,
                pieData, pies>>

interVars == <<ev, style, originalStyles, selectedPath, zorder, hover, selMark,
               lastEvent, callbacks, prevSelected, prevStyle, focused>>

vars == <<colorVars, calloutVars, renderVars, interVars>>

(***************************************************************************)
(* JavaScript values                                                       *)
(***************************************************************************)
Num(n) == [t |-> "num", v |-> n]
Null == [t |-> "null", v |-> 0]
Undefined == [t |-> "undefined", v |-> 0]
NaN == [t |-> "nan", v |-> 0]
NegInfinity == [t |-> "-inf", v |-> 0]
PosInfinity == [t |-> "+inf", v |-> 0]

\* a composite datum {count, rate}; a bare datum is the rate value itself
Rec(c, r) == [t |-> "rec", count |-> c, rate |-> r]

IsNum(x) == x.t = "num"
\* x == null of JavaScript: true of null and of undefined
IsNullish(x) == x.t \in {"null", "undefined"}

\* 1.0 in tenths
One == 10

Min2(a, b) == IF a <= b THEN a ELSE b
Max2(a, b) == IF a >= b THEN a ELSE b

\* Number(v): null converts to 0, undefined to NaN, a number to itself
ToNumber(v) ==
    CASE v.t = "num" -> v
      [] v.t = "null" -> Num(0)
      [] v.t \in {"-inf", "+inf"} -> v
      [] OTHER -> NaN

\* a + b of JavaScript on numbers, the infinities, NaN and undefined
JAdd(a, b) ==
    CASE a.t = "num" /\ b.t = "num" -> Num(a.v + b.v)
      [] a.t \in {"+inf", "-inf"} /\ b.t = "num" -> a
      [] a.t = "num" /\ b.t \in {"+inf", "-inf"} -> b
      [] a.t \in {"+inf", "-inf"} /\ b.t = a.t -> a
      [] OTHER -> NaN
JNeg(a) ==
    CASE a.t = "num" -> Num(0 - a.v)
      [] a.t = "+inf" -> NegInfinity
      [] a.t = "-inf" -> PosInfinity
      [] OTHER -> NaN
JSub(a, b) == JAdd(a, JNeg(b))
\* a / 2: exact on the even grid
JHalf(a) == IF a.t = "num" THEN Num(a.v \div 2) ELSE a
\* Math.min and Math.max of a running extreme (never NaN) and a number
JMin(a, b) ==
    CASE a.t = "+inf" -> b
      [] a.t = "num" /\ b.t = "num" -> Num(Min2(a.v, b.v))
      [] OTHER -> a
JMax(a, b) ==
    CASE a.t = "-inf" -> b
      [] a.t = "num" /\ b.t = "num" -> Num(Max2(a.v, b.v))
      [] OTHER -> a

\* mutant: a rate above 1 wraps to 0
clamp01Wrap(v) ==
    LET n == ToNumber(v)
    IN  IF ~IsNum(n) THEN Null ELSE IF n.v > One THEN Num(0) ELSE Num(Max2(0, n.v))
\* _clamp01: null unless Number(v) is finite, else the number clamped to [0,1]
clamp01(v) ==
    LET n == ToNumber(v)
    IN  IF ~IsNum(n) THEN Null ELSE Num(Min2(One, Max2(0, n.v)))

DefaultThresholds == <<8, 6, 4, 2>>
DefaultColors == <<"#00085A", "#1F48FF", "#79a1ee", "#99d9f2", "#D7D7D7">>
HardDefault == "#D7D7D7"

\* the th and cs of _makeColorForRate: the defaults replace a missing or empty array
EffTh(th) == IF Len(th) > 0 THEN th ELSE DefaultThresholds
EffCs(cs) == IF Len(cs) > 0 THEN cs ELSE DefaultColors
Fallback(cs) == IF Len(cs) >= 1 THEN cs[Len(cs)] ELSE HardDefault

\* the for loop of the returned closure, from index i (1-based here)
RECURSIVE ScanFrom(_, _, _, _)
\* mutant: the candidate is read one place too far
ScanFromOffByOne(th, cs, r, i) ==
    IF i > Len(th) THEN Fallback(cs)
    ELSE IF r >= th[i] THEN (IF i + 1 <= Len(cs) THEN cs[i + 1] ELSE Fallback(cs))
    ELSE ScanFrom(th, cs, r, i + 1)
\* mutant: a tie does not meet the threshold
ScanFromStrict(th, cs, r, i) ==
    IF i > Len(th) THEN Fallback(cs)
    ELSE IF r > th[i] THEN (IF i <= Len(cs) THEN cs[i] ELSE Fallback(cs))
    ELSE ScanFrom(th, cs, r, i + 1)
ScanFrom(th, cs, r, i) ==
    IF i > Len(th) THEN Fallback(cs)
    ELSE IF r >= th[i] THEN (IF i <= Len(cs) THEN cs[i] ELSE Fallback(cs))
    ELSE ScanFrom(th, cs, r, i + 1)

\* colorForRate = _makeColorForRate(thresholds, colors); colorForRate(rRaw)
colorForRate(ths, css, rRaw) ==
    LET th == EffTh(ths)
        cs == EffCs(css)
        r == clamp01(rRaw)
    IN  IF ~IsNum(r) THEN Fallback(cs) ELSE ScanFrom(th, cs, r.v, 1)

\* getRate of render (strict variants and part_001): null for a missing datum,
\* the bare number, or the record's rate field
getRate(dataMap, name) ==
    LET v == dataMap[name]
    IN  IF IsNullish(v) THEN Null
        ELSE IF v.t = "rec" THEN v.rate ELSE v

\* _paintRegions: every name of codeMap whose element exists gets its fill
paintRegions(names, hasElem, dataMap, ths, css, old) ==
    [n \in names |->
        IF hasElem[n] THEN colorForRate(ths, css, getRate(dataMap, n)) ELSE old[n]]

(***************************************************************************)
(* The svg surface: bounding boxes, the viewBox attribute, callouts        *)
(***************************************************************************)
Box(x, y, w, h) == [x |-> x, y |-> y, width |-> w, height |-> h]

\* the running minima and maxima of _computeBBox over a set of path boxes
RECURSIVE FoldBoxes(_, _)
FoldBoxes(S, acc) ==
    IF S = {} THEN acc
    ELSE LET b == CHOOSE c \in S : TRUE
         IN  FoldBoxes(S \ {b},
                 [minX |-> JMin(acc.minX, Num(b.x)),
                  minY |-> JMin(acc.minY, Num(b.y)),
                  maxX |-> JMax(acc.maxX, Num(b.x + b.width)),
                  maxY |-> JMax(acc.maxY, Num(b.y + b.height))])

\* _computeBBox: the union box of every path element of the svg, and its centre x
computeBBox(pathBoxes) ==
    LET e == FoldBoxes(pathBoxes, [minX |-> PosInfinity, minY |-> PosInfinity,
                                   maxX |-> NegInfinity, maxY |-> NegInfinity])
    IN  [x |-> e.minX, y |-> e.minY,
         w |-> JSub(e.maxX, e.minX), h |-> JSub(e.maxY, e.minY),
         cx |-> JHalf(JAdd(e.minX, e.maxX))]

NoFrame == [x |-> Undefined, y |-> Undefined, w |-> Undefined, h |-> Undefined, cx |-> Undefined]

\* The viewBox attribute is a string: its numbers, and what separates them.
NoAttr == [sep |-> "none", tok |-> <<>>]
\* vx + ' ' + vy + ' ' + vw + ' ' + vh
formatViewBox(vx, vy, vw, vh) == [sep |-> "space", tok |-> <<vx, vy, vw, vh>>]
\* Number(token): the text of a number reads back as that number, "undefined" and
\* "NaN" read as NaN
TokenToNumber(tk) == IF tk.t \in {"num", "+inf", "-inf"} THEN tk ELSE NaN
\* vbStr.split(/\s+/).map(Number): a comma-separated attribute is a single token,
\* which is no number, and the parts after the first are undefined
parseViewBox(attr) ==
    IF attr.sep = "space"
    THEN [i \in 1..4 |-> TokenToNumber(attr.tok[i])]
    ELSE <<NaN, Undefined, Undefined, Undefined>>

\* calloutOpts.padding || 0
OrZero(v) == IF v.t = "num" THEN v ELSE Num(0)

\* padding = pad + extra
totalPadding(co) == JAdd(OrZero(co.padding), OrZero(co.margin))

\* lines 363-371: vx, vy, vw, vh read from the attribute, or seeded from the frame
viewBoxBefore(attr, frame) ==
    IF attr.sep # "none" THEN parseViewBox(attr)
    ELSE <<frame.x, frame.y, frame.w, frame.h>>

\* mutant: the vertical extent is padded too
expandViewBoxBothAxes(vb, padding) ==
    formatViewBox(JSub(vb[1], padding), JSub(vb[2], padding),
                  JAdd(vb[3], JAdd(padding, padding)), JAdd(vb[4], JAdd(padding, padding)))
\* line 377: the viewport widened by padding on both sides
expandViewBox(vb, padding) ==
    formatViewBox(JSub(vb[1], padding), vb[2], JAdd(vb[3], JAdd(padding, padding)), vb[4])

\* _fmtInt
fmtInt(n) == IF n.t \in {"null", "undefined", "nan"} THEN "-" ELSE ToString(n.v)

\* lines 432-436: the label text of a callout
calloutText(co, dataMap, name) ==
    LET dv == dataMap[name]
        count == IF dv.t = "num" THEN Null
                 ELSE IF dv.t = "rec" THEN dv.count ELSE dv
    IN  IF co.formatter THEN [by |-> "formatter", name |-> name, shown |-> fmtInt(count)]
        ELSE [by |-> "default", name |-> name, shown |-> fmtInt(count)]

\* mutant: an anchor on the centre line counts as left-side
leftSideInclusive(cx, frame) == cx <= frame.cx.v
\* line 402: leftSide = cx < bbox.cx
leftSideOf(cx, frame) == cx < frame.cx.v

\* lines 392-438: the callout of one region whose path exists (the frame is finite
\* then: the path is one of those the frame was computed from)
calloutOf(name, b, frame, co, dataMap) ==
    LET pad == OrZero(co.padding).v
        off == co.offsets[name]
        bypass == co.bypass[name]
        cx == b.x + (b.width \div 2) + off[1]
        cy == b.y + (b.height \div 2) + off[2]
        leftX == frame.x.v - pad
        rightX == frame.x.v + frame.w.v + pad
        leftSide == leftSideOf(cx, frame)
        endX == IF leftSide THEN leftX ELSE rightX
        textDx == OrZero(co.textOffset).v * (IF leftSide THEN -1 ELSE 1)
        endY == cy + (IF bypass.on THEN bypass.d[2] ELSE 0)
        bend == IF bypass.on THEN << <<cx + bypass.d[1], cy + bypass.d[2]>> >> ELSE <<>>
    IN  [name |-> name, cx |-> cx, cy |-> cy, leftSide |-> leftSide, endX |-> endX,
         line |-> << <<cx, cy>>, <<cx, cy>> >> \o bend \o << <<endX + textDx, endY>> >>,
         labelX |-> endX, labelY |-> endY,
         textAnchor |-> IF leftSide THEN "end" ELSE "start",
         text |-> calloutText(co, dataMap, name)]

\* the loop of lines 385-439 over the names of codeMap, in key order
RECURSIVE calloutsFrom(_, _, _, _, _, _, _)
calloutsFrom(order, i, present, boxes, frame, co, dataMap) ==
    IF i > Len(order) THEN <<>>
    ELSE (IF order[i] \in present
          THEN <<calloutOf(order[i], boxes[order[i]], frame, co, dataMap)>>
          ELSE <<>>)
         \o calloutsFrom(order, i + 1, present, boxes, frame, co, dataMap)

(***************************************************************************)
(* Labels, interaction binding, bars                                       *)
(***************************************************************************)
\* part_002 getRate: undefined for a missing datum
getRateP002(dataMap, name) ==
    LET v == dataMap[name]
    IN  IF v.t = "num" THEN v
        ELSE IF v.t = "rec" THEN v.rate ELSE Undefined

\* _paintRegions with the getRate of part_002
paintRegionsP002(names, hasElem, dataMap, ths, css, old) ==
    [n \in names |->
        IF hasElem[n] THEN colorForRate(ths, css, getRateP002(dataMap, n)) ELSE old[n]]

\* labelOpts.minWidth != null ? labelOpts.minWidth : 16
OrDefault(v, d) == IF v.t = "num" THEN v.v ELSE d

\* _placeRegionLabels, lines 203-235: one label per name whose path exists and whose
\* box is not below the minimum size, at the centre of the box
RECURSIVE labelsFrom(_, _, _, _, _)
labelsFrom(order, i, present, boxes, lo) ==
    IF i > Len(order) THEN <<>>
    ELSE LET n == order[i]
             b == boxes[n]
         IN  (IF n \in present
                 /\ ~(b.width < OrDefault(lo.minWidth, 16) \/ b.height < OrDefault(lo.minHeight, 12))
              THEN <<[name |-> n, x |-> b.x + (b.width \div 2), y |-> b.y + (b.height \div 2)]>>
              ELSE <<>>)
             \o labelsFrom(order, i + 1, present, boxes, lo)

\* the bind loop, lines 648-671: the names whose path gets its listeners
RECURSIVE boundFrom(_, _, _)
\* mutant: the loop ends at the first name without a path
boundFromBreak(order, i, present) ==
    IF i > Len(order) \/ order[i] \notin present THEN {}
    ELSE {order[i]} \cup boundFrom(order, i + 1, present)
boundFrom(order, i, present) ==
    IF i > Len(order) THEN {}
    ELSE (IF order[i] \in present THEN {order[i]} ELSE {})
         \cup boundFrom(order, i + 1, present)

\* mutant: a key whose datum is null is skipped
HasKeyNonNull(dataMap, k) == dataMap[k] # Undefined /\ dataMap[k] # Null
\* a key whose value is undefined stands for a key the data map does not have
HasKey(dataMap, k) == dataMap[k] # Undefined

\* lines 304-306: the rate of an entry, -Infinity when it is null or undefined
entryRate(v) ==
    LET rate == IF v.t = "num" THEN v
                ELSE IF v.t = "rec" THEN v.rate ELSE v
    IN  IF IsNullish(rate) THEN NegInfinity ELSE rate

\* mutant: the comparator is a[1] - b[1], ascending
SortsBeforeAscending(b, a) ==
    LET d == JSub(a.rate, b.rate)
    IN  \/ d.t = "num" /\ d.v > 0
        \/ d.t = "+inf"
\* b[1] - a[1] > 0: the comparator puts b before a
SortsBefore(b, a) ==
    LET d == JSub(b.rate, a.rate)
    IN  \/ d.t = "num" /\ d.v > 0
        \/ d.t = "+inf"

\* entries.sort: an insertion of e into rows already in order, after its equals
RECURSIVE insertEntry(_, _)
insertEntry(rows, e) ==
    IF rows = <<>> THEN <<e>>
    ELSE IF SortsBefore(e, Head(rows)) THEN <<e>> \o rows
    ELSE <<Head(rows)>> \o insertEntry(Tail(rows), e)

\* lines 300-309: the entries of the data map in key order, sorted by rate descending
RECURSIVE entriesFrom(_, _, _)
entriesFrom(keys, i, dataMap) ==
    IF i > Len(keys) THEN <<>>
    ELSE LET rest == entriesFrom(keys, i + 1, dataMap)
         IN  IF HasKey(dataMap, keys[i])
             THEN <<[name |-> keys[i], rate |-> entryRate(dataMap[keys[i]])]>> \o rest
             ELSE rest
RECURSIVE sortEntries(_, _)
sortEntries(entries, acc) ==
    IF entries = <<>> THEN acc
    ELSE sortEntries(Tail(entries), insertEntry(acc, Head(entries)))

\* _fmtPct, the rate in tenths
fmtPct(x) == IF x.t \in {"null", "undefined", "nan"} THEN "-" ELSE ToString(x.v * 10) \o "%"

\* lines 311-354: the row of one entry; r = _clamp01(rRaw) || 0
barRow(e, ths, css, barWidth) ==
    LET c == clamp01(e.rate)
        r == IF c.t = "num" THEN c ELSE Num(0)
    IN  [name |-> e.name, r |-> r.v, color |-> colorForRate(ths, css, r),
         width |-> barWidth * r.v, value |-> fmtPct(r)]

\* _buildBars: the rows of the bar list
buildBars(keys, dataMap, ths, css, barWidth) ==
    LET sorted == sortEntries(entriesFrom(keys, 1, dataMap), <<>>)
    IN  [i \in 1..Len(sorted) |-> barRow(sorted[i], ths, css, barWidth)]

(***************************************************************************)
(* SpecColor: the colour scale applied to a two-region map                 *)
(***************************************************************************)
MaxTh == 2
MaxColors == 5

ColorRegions == {"A", "B"}
ThVals == {0, 5, 8}
RawNums == {-3, 0, 3, 5, 8, 9, 10, 15}
ColorNames == <<"c0", "c1", "c2", "c3", "c4", "c5", "c6", "c7">>

SeqsUpTo(S, n) == UNION {[1..k -> S] : k \in 0..n}
ThresholdConfigs == SeqsUpTo(ThVals, MaxTh) \cup {DefaultThresholds}
ColorConfigs == {SubSeq(ColorNames, 1, k) : k \in 0..MaxColors}
RawValues == {Num(n) : n \in RawNums} \cup {Null, Undefined, NaN}
Datums == RawValues \cup {Rec(Num(7), Num(3)), Rec(Num(7), Null), Rec(Num(7), Undefined)}

CNames == <<"A", "B", "C">>
CNameSet == {CNames[i] : i \in 1..Len(CNames)}

CalloutIdle ==
    /\ elems = {}
    /\ regionBox = [n \in CNameSet |-> Box(0, 0, 0, 0)]
    /\ unmapped = {}
    /\ viewBox = NoAttr
    /\ calloutOpts = [absent |-> TRUE]
    /\ bbox = NoFrame
    /\ group = <<>>
    /\ passes = 0
    /\ vbLog = <<>>

NoOpts == [mode |-> "absent", bar |-> FALSE,
           labels |-> [minWidth |-> Undefined, minHeight |-> Undefined]]
OldMount == [cleared |-> FALSE, styled |-> FALSE, children |-> <<"old">>]

RenderIdle ==
    /\ variant = "ES5"
    /\ opts = NoOpts
    /\ mountOk = TRUE
    /\ mount = OldMount
    /\ loadStarted = FALSE
    /\ renderPc = "idle"
    /\ error = ""
    /\ steps = <<>>
    /\ labels = <<>>
    /\ bound = {}
    /\ winListeners = 0
    /\ barRows = <<>>
    /\ calls = <<>>
    /\ pieData = [absent |-> TRUE]
    /\ pies = <<>>

NoPath == "#null"
NoEvents == [absent |-> TRUE]

InterIdle ==
    /\ ev = NoEvents
    /\ style = <<>>
    /\ originalStyles = <<>>
    /\ selectedPath = NoPath
    /\ zorder = <<>>
    /\ hover = {}
    /\ selMark = {}
    /\ lastEvent = [type |-> "none", on |-> ""]
    /\ callbacks = <<>>
    /\ prevSelected = NoPath
    /\ prevStyle = <<>>
    /\ focused = NoPath

ColorIdle ==
    /\ thresholds = <<>>
    /\ colors = <<>>
    /\ data = [n \in ColorRegions |-> Undefined]
    /\ fill = [n \in ColorRegions |-> ""]
    /\ colorPc = "idle"

InitColor ==
    /\ CalloutIdle
    /\ RenderIdle
    /\ InterIdle
    /\ thresholds \in ThresholdConfigs
    /\ colors \in ColorConfigs
    /\ data \in [ColorRegions -> Datums]
    /\ fill = [n \in ColorRegions |-> ""]
    /\ colorPc = "init"

\* render, lines 705 and 723-729: build the scale and paint the regions
Paint ==
    /\ colorPc = "init"
    /\ fill' = paintRegions(ColorRegions, [n \in ColorRegions |-> TRUE],
                            data, thresholds, colors, fill)
    /\ colorPc' = "painted"
    /\ UNCHANGED <<thresholds, colors, data>>
    /\ UNCHANGED <<calloutVars, renderVars, interVars>>

NextColor == Paint

SpecColor == InitColor /\ [][NextColor]_vars

(***************************************************************************)
(* SpecCallout: _buildCallouts on one svg, once and again                  *)
(***************************************************************************)
MaxPasses == 2

RegionLayouts ==
    {[n \in CNameSet |->
        CASE n = "A" -> Box(0, 0, 100, 50)
          [] n = "B" -> Box(200, 0, 100, 50)
          [] OTHER -> c] : c \in {Box(100, 0, 100, 50), Box(120, 20, 40, 10)}}
UnmappedLayouts == {{}, {Box(300, 0, 100, 50)}}
ViewBoxAttrs ==
    {NoAttr,
     [sep |-> "space", tok |-> <<Num(0), Num(0), Num(300), Num(50)>>],
     [sep |-> "space", tok |-> <<Num(0), Num(0), Num(400), Num(300)>>],
     [sep |-> "comma", tok |-> <<Num(0), Num(0), Num(400), Num(300)>>]}
NoBypass == [on |-> FALSE, d |-> <<0, 0>>]
CalloutOptions ==
    {[absent |-> FALSE, padding |-> p, margin |-> m, textOffset |-> t,
      offsets |-> [n \in CNameSet |-> IF n = "A" THEN oa ELSE <<0, 0>>],
      bypass |-> [n \in CNameSet |-> IF n = "B" THEN bb ELSE NoBypass],
      formatter |-> f, formatterThrows |-> FALSE] :
        p \in {Undefined, Num(20)}, m \in {Undefined, Num(12)}, t \in {Undefined, Num(8)},
        oa \in {<<0, 0>>, <<100, 0>>},
        bb \in {NoBypass, [on |-> TRUE, d |-> <<12, -10>>]},
        f \in BOOLEAN}
CalloutData ==
    [n \in CNameSet |->
        CASE n = "A" -> Rec(Num(4339), Num(9))
          [] n = "B" -> Num(3)
          [] OTHER -> Undefined]

InitCallout ==
    /\ RenderIdle
    /\ InterIdle
    /\ thresholds = <<>>
    /\ colors = <<>>
    /\ data = CalloutData
    /\ fill = [n \in CNameSet |-> ""]
    /\ colorPc = "idle"
    /\ elems \in SUBSET CNameSet
    /\ regionBox \in RegionLayouts
    /\ unmapped \in UnmappedLayouts
    /\ viewBox \in ViewBoxAttrs
    /\ calloutOpts \in CalloutOptions
    /\ bbox = NoFrame
    /\ group = <<>>
    /\ passes = 0
    /\ vbLog = <<viewBox>>

\* the boxes of every path element of the svg
pathBoxes == {regionBox[n] : n \in elems} \cup unmapped

\* _buildCallouts(svg, codeMap, dataMap, bbox, calloutOpts): the first pass is the
\* one of render (lines 737-738), with the frame computed from the svg; a further
\* pass is the same call made again on the same svg
BuildCallouts ==
    /\ passes < MaxPasses
    /\ LET frame == IF passes = 0 THEN computeBBox(pathBoxes) ELSE bbox
           vb == viewBoxBefore(viewBox, frame)
           padding == totalPadding(calloutOpts)
       IN  /\ viewBox' = expandViewBox(vb, padding)
           /\ group' = group \o calloutsFrom(CNames, 1, elems, regionBox, frame,
                                             calloutOpts, data)
           /\ bbox' = frame
    /\ passes' = passes + 1
    /\ vbLog' = Append(vbLog, viewBox')
    /\ UNCHANGED <<elems, regionBox, unmapped, calloutOpts>>
    /\ UNCHANGED <<colorVars, renderVars, interVars>>

NextCallout == BuildCallouts

SpecCallout == InitCallout /\ [][NextCallout]_vars

(***************************************************************************)
(* SpecRender: one call of render, in each of the four variants            *)
(***************************************************************************)
Variants == {"ES5", "p000", "p001", "p002"}
Strict(v) == v \in {"ES5", "p000"}
Modes == {"absent", "normal", "rate+bars", "count+callouts"}

DataKeys == <<"A", "B", "C", "X">>
DataKeySet == {DataKeys[i] : i \in 1..Len(DataKeys)}
RenderDataMaps ==
    {[k \in DataKeySet |->
        CASE k = "A" -> Num(5) [] k = "B" -> Null [] k = "C" -> Num(9) [] OTHER -> Undefined],
     [k \in DataKeySet |->
        CASE k = "A" -> Rec(Num(4339), Num(9)) [] k = "B" -> Rec(Num(12), Null)
          [] k = "C" -> Undefined [] OTHER -> Num(3)],
     [k \in DataKeySet |->
        CASE k = "A" -> Num(-3) [] k = "B" -> Rec(Num(12), Undefined)
          [] k = "C" -> Num(15) [] OTHER -> Num(10)]}

\* calloutOpts = calloutOpts || {}
EmptyCalloutOpts ==
    [absent |-> FALSE, padding |-> Undefined, margin |-> Undefined, textOffset |-> Undefined,
     offsets |-> [n \in CNameSet |-> <<0, 0>>], bypass |-> [n \in CNameSet |-> NoBypass],
     formatter |-> FALSE, formatterThrows |-> FALSE]
EffCalloutOpts(co) == IF co.absent THEN EmptyCalloutOpts ELSE co
RenderCalloutOptions ==
    {[absent |-> TRUE]} \cup
    {[absent |-> FALSE, padding |-> Num(20), margin |-> Num(12), textOffset |-> Num(8),
      offsets |-> [n \in CNameSet |-> <<0, 0>>], bypass |-> [n \in CNameSet |-> NoBypass],
      formatter |-> f, formatterThrows |-> f] : f \in BOOLEAN}
RenderOptions ==
    {[mode |-> md, bar |-> b, labels |-> [minWidth |-> Undefined, minHeight |-> Undefined]] :
        md \in Modes, b \in BOOLEAN}

\* the check of lines 707-721 (strict variants only): which option is missing
configError(v, o, co) ==
    IF ~Strict(v) THEN ""
    ELSE IF o.mode = "absent" THEN "mode"
    ELSE IF o.mode = "rate+bars" /\ ~o.bar THEN "bar"
    ELSE IF o.mode = "count+callouts" /\ co.absent THEN "callouts"
    ELSE ""

\* the mode: declared (line 712), or in the lenient variants inferred from the
\* presence of bar and callouts (part_001 line 362, part_002 line 273)
resolveMode(v, o, co) ==
    IF Strict(v) \/ o.mode # "absent" THEN o.mode
    ELSE IF o.bar THEN "rate+bars"
    ELSE IF ~co.absent THEN "count+callouts"
    ELSE "rate+bars"

\* the last branch of render: lines 734-739; part_001 lines 375-381; part_002
\* lines 282-287, whose else has no condition
annotation(v, md) ==
    IF md = "rate+bars" THEN "bars"
    ELSE IF v = "p002" THEN "callouts"
    ELSE IF md = "count+callouts" THEN "callouts"
    ELSE "none"

\* barOpts.width != null ? barOpts.width : 100
barWidthOf(o) == IF o.bar THEN 180 ELSE 100

InitRender ==
    /\ InterIdle
    /\ thresholds = <<>>
    /\ colors = <<>>
    /\ data \in RenderDataMaps
    /\ fill = [n \in CNameSet |-> ""]
    /\ colorPc = "idle"
    /\ elems \in SUBSET CNameSet
    /\ regionBox \in RegionLayouts
    /\ unmapped = {}
    /\ viewBox \in {NoAttr, [sep |-> "space", tok |-> <<Num(0), Num(0), Num(400), Num(300)>>]}
    /\ calloutOpts \in RenderCalloutOptions
    /\ bbox = NoFrame
    /\ group = <<>>
    /\ passes = 0
    /\ vbLog = <<viewBox>>
    /\ variant \in Variants
    /\ opts \in RenderOptions
    /\ mountOk \in BOOLEAN
    /\ mount = OldMount
    /\ loadStarted = FALSE
    /\ renderPc = "idle"
    /\ error = ""
    /\ steps = <<>>
    /\ labels = <<>>
    /\ bound = {}
    /\ winListeners = 0
    /\ barRows = <<>>
    /\ calls = <<>>
    /\ pieData = [absent |-> TRUE]
    /\ pies = <<>>

\* render, lines 686-688: the mount does not resolve, render throws at once
RenderNoMount ==
    /\ renderPc = "idle"
    /\ ~mountOk
    /\ renderPc' = "failed"
    /\ error' = "mount"
    /\ UNCHANGED <<pieData, pies>>
    /\ UNCHANGED <<calls, variant, opts, mountOk, mount, loadStarted, steps, labels, bound,
                   winListeners, barRows>>
    /\ UNCHANGED <<colorVars, calloutVars, interVars>>

\* render, lines 690-698: the mount is emptied and styled and the load is started
RenderCall ==
    /\ renderPc = "idle"
    /\ mountOk
    /\ mount' = [cleared |-> TRUE, styled |-> TRUE, children |-> <<>>]
    /\ loadStarted' = TRUE
    /\ steps' = steps \o <<"clear", "css", "load">>
    /\ renderPc' = "loading"
    /\ UNCHANGED <<pieData, pies>>
    /\ UNCHANGED <<calls, variant, opts, mountOk, error, labels, bound, winListeners, barRows>>
    /\ UNCHANGED <<colorVars, calloutVars, interVars>>

\* render, lines 698-721: the document arrived, the svg is appended, and a strict
\* variant finds the mode or its option missing and throws
RenderLoadedFail ==
    /\ renderPc = "loading"
    /\ configError(variant, opts, calloutOpts) # ""
    /\ mount' = [mount EXCEPT !.children = Append(@, "svg")]
    /\ steps' = steps \o <<"append", "clearfill", "throw">>
    /\ error' = configError(variant, opts, calloutOpts)
    /\ renderPc' = "failed"
    /\ UNCHANGED <<pieData, pies>>
    /\ UNCHANGED <<calls, variant, opts, mountOk, loadStarted, labels, bound, winListeners, barRows>>
    /\ UNCHANGED <<colorVars, calloutVars, interVars>>

\* lines 432-436: the caller's formatter is called for the first name whose path
\* exists, and throws
formatterFails(v, o, co, present) ==
    /\ annotation(v, resolveMode(v, o, co)) = "callouts"
    /\ EffCalloutOpts(co).formatter
    /\ EffCalloutOpts(co).formatterThrows
    /\ present # {}

\* render, lines 698-739: the document arrived; paint, labels and binding are done,
\* the viewBox is widened, and the formatter throws inside _buildCallouts
RenderLoadedThrow ==
    /\ renderPc = "loading"
    /\ configError(variant, opts, calloutOpts) = ""
    /\ formatterFails(variant, opts, calloutOpts, elems)
    /\ LET hasElem == [n \in CNameSet |-> n \in elems]
           frame == computeBBox(pathBoxes)
           co == EffCalloutOpts(calloutOpts)
       IN  /\ fill' = IF variant = "p002"
                      THEN paintRegionsP002(CNameSet, hasElem, data, thresholds, colors, fill)
                      ELSE paintRegions(CNameSet, hasElem, data, thresholds, colors, fill)
           /\ labels' = labelsFrom(CNames, 1, elems, regionBox, opts.labels)
           /\ bound' = boundFrom(CNames, 1, elems)
           /\ winListeners' = IF variant = "ES5" THEN winListeners + 1 ELSE winListeners
           /\ mount' = [mount EXCEPT !.children = Append(@, "svg")]
           /\ bbox' = frame
           /\ viewBox' = expandViewBox(viewBoxBefore(viewBox, frame), totalPadding(co))
           /\ passes' = passes + 1
           /\ vbLog' = Append(vbLog, viewBox')
    /\ steps' = steps \o <<"append", "clearfill", "paint", "labels", "bind", "bbox", "throw">>
    /\ error' = "formatter"
    /\ renderPc' = "failed"
    /\ UNCHANGED <<pieData, pies>>
    /\ UNCHANGED <<calls, variant, opts, mountOk, loadStarted, barRows, group>>
    /\ UNCHANGED <<thresholds, colors, data, colorPc>>
    /\ UNCHANGED <<elems, regionBox, unmapped, calloutOpts>>
    /\ UNCHANGED interVars

\* render, lines 698-741: the document arrived; paint, labels, binding, then the
\* bar list or the callouts or neither
RenderLoaded ==
    /\ renderPc = "loading"
    /\ configError(variant, opts, calloutOpts) = ""
    /\ ~formatterFails(variant, opts, calloutOpts, elems)
    /\ LET md == resolveMode(variant, opts, calloutOpts)
           ann == annotation(variant, md)
           hasElem == [n \in CNameSet |-> n \in elems]
           frame == computeBBox(pathBoxes)
           co == EffCalloutOpts(calloutOpts)
       IN  /\ fill' = IF variant = "p002"
                      THEN paintRegionsP002(CNameSet, hasElem, data, thresholds, colors, fill)
                      ELSE paintRegions(CNameSet, hasElem, data, thresholds, colors, fill)
           /\ labels' = labelsFrom(CNames, 1, elems, regionBox, opts.labels)
           /\ bound' = boundFrom(CNames, 1, elems)
           /\ winListeners' = IF variant = "ES5" THEN winListeners + 1 ELSE winListeners
           /\ barRows' = IF ann = "bars"
                         THEN buildBars(DataKeys, data, thresholds, colors, barWidthOf(opts))
                         ELSE barRows
           /\ mount' = [mount EXCEPT !.children =
                            IF ann = "bars" THEN @ \o <<"svg", "barlist">> ELSE Append(@, "svg")]
           /\ IF ann = "callouts"
              THEN /\ bbox' = frame
                   /\ viewBox' = expandViewBox(viewBoxBefore(viewBox, frame), totalPadding(co))
                   /\ group' = group \o calloutsFrom(CNames, 1, elems, regionBox, frame, co, data)
                   /\ passes' = passes + 1
                   /\ vbLog' = Append(vbLog, viewBox')
              ELSE UNCHANGED <<bbox, viewBox, group, passes, vbLog>>
           /\ steps' = steps \o <<"append", "clearfill", "paint", "labels", "bind">>
                             \o (CASE ann = "bars" -> <<"bars">>
                                   [] ann = "callouts" -> <<"bbox", "callouts">>
                                   [] OTHER -> <<>>)
    /\ renderPc' = "done"
    /\ UNCHANGED <<pieData, pies>>
    /\ UNCHANGED <<calls, variant, opts, mountOk, loadStarted, error>>
    /\ UNCHANGED <<thresholds, colors, data, colorPc>>
    /\ UNCHANGED <<elems, regionBox, unmapped, calloutOpts>>
    /\ UNCHANGED interVars

NextRender ==
    RenderNoMount \/ RenderCall \/ RenderLoadedFail \/ RenderLoadedThrow \/ RenderLoaded

SpecRender == InitRender /\ [][NextRender]_vars

(***************************************************************************)
(* SpecOverlap: render called several times on one mount                   *)
(***************************************************************************)
MaxCalls == 2

CallIds == 1..MaxCalls
OverlapModes == {"normal", "rate+bars", "count+callouts"}

InitOverlap ==
    /\ ColorIdle
    /\ CalloutIdle
    /\ InterIdle
    /\ variant \in Variants
    /\ opts = NoOpts
    /\ mountOk = TRUE
    /\ mount = OldMount
    /\ loadStarted = FALSE
    /\ renderPc = "idle"
    /\ error = ""
    /\ steps = <<>>
    /\ labels = <<>>
    /\ bound = {}
    /\ winListeners = 0
    /\ barRows = <<>>
    /\ calls \in [CallIds -> [pc : {"idle"}, mode : OverlapModes, overlapped : {FALSE}]]
    /\ pieData = [absent |-> TRUE]
    /\ pies = <<>>

\* render, lines 683-698, up to the return of the promise: the mount is emptied and
\* styled and the load is started; the call overlaps when another call's load is
\* still under way
OverlapCall(i) ==
    /\ calls[i].pc = "idle"
    /\ mount' = [cleared |-> TRUE, styled |-> TRUE, children |-> <<>>]
    /\ loadStarted' = TRUE
    /\ steps' = steps \o <<"clear", "css", "load">>
    /\ calls' = [calls EXCEPT ![i] = [@ EXCEPT !.pc = "loading",
                     !.overlapped = \E j \in CallIds : calls[j].pc = "loading"]]
    /\ UNCHANGED <<pieData, pies>>
    /\ UNCHANGED <<variant, opts, mountOk, renderPc, error, labels, bound, winListeners, barRows>>
    /\ UNCHANGED <<colorVars, calloutVars, interVars>>

\* the then-callback of a call, lines 698-741: its svg is appended to the mount
\* (line 701) and, in bar mode, its bar list (line 356)
OverlapLoaded(i) ==
    /\ calls[i].pc = "loading"
    /\ mount' = [mount EXCEPT !.children =
                    IF annotation(variant, calls[i].mode) = "bars"
                    THEN @ \o <<"svg", "barlist">> ELSE Append(@, "svg")]
    /\ steps' = Append(steps, "append")
    /\ calls' = [calls EXCEPT ![i] = [@ EXCEPT !.pc = "done"]]
    /\ UNCHANGED <<pieData, pies>>
    /\ UNCHANGED <<variant, opts, mountOk, loadStarted, renderPc, error, labels, bound,
                   winListeners, barRows>>
    /\ UNCHANGED <<colorVars, calloutVars, interVars>>

NextOverlap ==
    \/ \E i \in CallIds : OverlapCall(i)
    \/ \E i \in CallIds : OverlapLoaded(i)

SpecOverlap == InitOverlap /\ [][NextOverlap]_vars

(***************************************************************************)
(* SpecGlyph: labels with pie glyphs, then the frame and the callouts      *)
(***************************************************************************)
\* cos and sin of an angle that is a multiple of 90 degrees
Cos90(a) == CASE a % 360 = 0 -> 1 [] a % 360 = 180 -> -1 [] OTHER -> 0
Sin90(a) == CASE a % 360 = 90 -> 1 [] a % 360 = 270 -> -1 [] OTHER -> 0

\* value / total * 360 for the value lists of the model, where the division is exact
sliceAngle(value, total) ==
    IF total > 0 THEN (value * 360) \div total ELSE ((0 - value) * 360) \div (0 - total)

\* getBBox() of the slice path 'M cx cy L x1 y1 A r r 0 f 1 x2 y2 Z' (innerRadius 0)
\* for a start and a positive sweep that are multiples of 90 degrees
sliceBox(cx, cy, r, start, angle) ==
    LET on == {start, start + angle}
                \cup {a \in (start + 1)..(start + angle - 1) : a % 90 = 0}
        xs == {cx} \cup {cx + r * Cos90(a) : a \in on}
        ys == {cy} \cup {cy + r * Sin90(a) : a \in on}
        x0 == CHOOSE x \in xs : \A o \in xs : x <= o
        x1 == CHOOSE x \in xs : \A o \in xs : x >= o
        y0 == CHOOSE y \in ys : \A o \in ys : y <= o
        y1 == CHOOSE y \in ys : \A o \in ys : y >= o
    IN  Box(x0, y0, x1 - x0, y1 - y0)

\* lines 123-126: total += (data[i].data || 0)
RECURSIVE pieTotal(_, _)
pieTotal(values, i) ==
    IF i > Len(values) THEN 0 ELSE values[i] + pieTotal(values, i + 1)

\* the loop of lines 131-188: one slice per item whose angle is not 0
RECURSIVE slicesFrom(_, _, _, _, _, _, _)
slicesFrom(values, j, total, currentAngle, cx, cy, r) ==
    IF j > Len(values) THEN <<>>
    ELSE LET angle == sliceAngle(values[j], total)
         IN  IF angle = 0 THEN slicesFrom(values, j + 1, total, currentAngle, cx, cy, r)
             ELSE <<[start |-> currentAngle, angle |-> angle,
                     box |-> sliceBox(cx, cy, r, currentAngle, angle)]>>
                  \o slicesFrom(values, j + 1, total, currentAngle + angle, cx, cy, r)

\* _createPieChart: the slices of the glyph; none when the total is 0 (line 127);
\* the first slice starts at -90 degrees, which is 270
createPieChart(cx, cy, values, r) ==
    LET total == pieTotal(values, 1)
    IN  IF total = 0 THEN <<>> ELSE slicesFrom(values, 1, total, 270, cx, cy, r)

\* pieOpts.radius != null ? pieOpts.radius : 15
PieRadius == 15

\* lines 237-271: the pie glyph of one labelled region, placed beside its label
pieOf(name, b, pd) ==
    LET cx == b.x + (b.width \div 2)
        cy == b.y + (b.height \div 2)
        d == pd.gap + PieRadius
        pieX == CASE pd.position = "left" -> cx - d [] pd.position = "right" -> cx + d
                  [] OTHER -> cx
        pieY == CASE pd.position = "top" -> cy - d [] pd.position = "bottom" -> cy + d
                  [] OTHER -> cy
    IN  [name |-> name, x |-> pieX, y |-> pieY,
         slices |-> createPieChart(pieX, pieY, pd.values[name].v, PieRadius)]

\* the pies _placeRegionLabels appends, in key order: one for each labelled region
\* that pieChartData has an entry for
RECURSIVE piesFrom(_, _, _, _, _, _)
piesFrom(order, i, present, boxes, lo, pd) ==
    IF i > Len(order) THEN <<>>
    ELSE LET n == order[i]
             b == boxes[n]
         IN  (IF n \in present
                 /\ ~(b.width < OrDefault(lo.minWidth, 16) \/ b.height < OrDefault(lo.minHeight, 12))
                 /\ pd.values[n].has
              THEN <<pieOf(n, b, pd)>>
              ELSE <<>>)
             \o piesFrom(order, i + 1, present, boxes, lo, pd)

\* the boxes of the slice paths of the pies
pieBoxes(ps) ==
    UNION {{ps[i].slices[j].box : j \in 1..Len(ps[i].slices)} : i \in 1..Len(ps)}

NoPieEntry == [has |-> FALSE, v |-> <<>>]
PieValueLists == {<<1, 1>>, <<3, 1>>, <<0, 0>>, <<1, -1>>, <<-1, -1>>}
PieConfigs ==
    {[absent |-> FALSE, position |-> pos, gap |-> g,
      values |-> [n \in CNameSet |-> IF n = "B" THEN e ELSE NoPieEntry]] :
        pos \in {"right", "left", "top"}, g \in {15, 40},
        e \in {NoPieEntry} \cup {[has |-> TRUE, v |-> vs] : vs \in PieValueLists}}
GlyphCalloutOpts == [EmptyCalloutOpts EXCEPT !.padding = Num(20)]

InitGlyph ==
    /\ thresholds = <<>>
    /\ colors = <<>>
    /\ data = CalloutData
    /\ fill = [n \in CNameSet |-> ""]
    /\ colorPc = "idle"
    /\ InterIdle
    /\ elems \in SUBSET CNameSet
    /\ regionBox \in RegionLayouts
    /\ unmapped \in UnmappedLayouts
    /\ viewBox = NoAttr
    /\ calloutOpts = GlyphCalloutOpts
    /\ bbox = NoFrame
    /\ group = <<>>
    /\ passes = 0
    /\ vbLog = <<viewBox>>
    /\ variant = "ES5"
    /\ opts = [NoOpts EXCEPT !.mode = "count+callouts"]
    /\ mountOk = TRUE
    /\ mount = [cleared |-> TRUE, styled |-> TRUE, children |-> <<"svg">>]
    /\ loadStarted = TRUE
    /\ renderPc = "painted"
    /\ error = ""
    /\ steps = <<"clear", "css", "load", "append", "clearfill", "paint">>
    /\ labels = <<>>
    /\ bound = {}
    /\ winListeners = 0
    /\ barRows = <<>>
    /\ calls = <<>>
    /\ pieData \in PieConfigs
    /\ pies = <<>>

\* render, lines 730-732: _placeRegionLabels with opts.pieChartData, then the binding
PlaceLabels ==
    /\ renderPc = "painted"
    /\ labels' = labelsFrom(CNames, 1, elems, regionBox, opts.labels)
    /\ pies' = piesFrom(CNames, 1, elems, regionBox, opts.labels, pieData)
    /\ bound' = boundFrom(CNames, 1, elems)
    /\ winListeners' = winListeners + 1
    /\ steps' = steps \o <<"labels", "bind">>
    /\ renderPc' = "bound"
    /\ UNCHANGED <<calls, variant, opts, mountOk, mount, loadStarted, error, barRows, pieData>>
    /\ UNCHANGED <<colorVars, calloutVars, interVars>>

\* render, lines 737-738: the frame over every path element the svg now holds, and
\* the callouts routed against it
RouteCallouts ==
    /\ renderPc = "bound"
    /\ LET frame == computeBBox(pathBoxes \cup pieBoxes(pies))
       IN  /\ bbox' = frame
           /\ viewBox' = expandViewBox(viewBoxBefore(viewBox, frame), totalPadding(calloutOpts))
           /\ group' = group \o calloutsFrom(CNames, 1, elems, regionBox, frame,
                                             calloutOpts, data)
    /\ passes' = passes + 1
    /\ vbLog' = Append(vbLog, viewBox')
    /\ steps' = steps \o <<"bbox", "callouts">>
    /\ renderPc' = "done"
    /\ UNCHANGED <<elems, regionBox, unmapped, calloutOpts>>
    /\ UNCHANGED <<calls, variant, opts, mountOk, mount, loadStarted, error, labels, bound,
                   winListeners, barRows, pieData, pies>>
    /\ UNCHANGED <<colorVars, interVars>>

NextGlyph == PlaceLabels \/ RouteCallouts

SpecGlyph == InitGlyph /\ [][NextGlyph]_vars

(***************************************************************************)
(* _bindRegionEvents: styles, selection, stacking order                    *)
(***************************************************************************)
\* a style object (a hover style, a snapshot) gives a value to some of these keys
StyleKeys == {"stroke", "strokeWidth", "opacity", "cursor", "filter", "fill", "strokeDasharray"}
Absent == "#absent"
NullV == "#nullv"
StyleObj(f) == [k \in StyleKeys |-> IF k \in DOMAIN f THEN f[k] ELSE Absent]

\* el.style.removeProperty(k) with the key as written: a camelCase key names no property
Removable(k) == k \in {"stroke", "opacity", "cursor", "filter", "fill"}

\* apply(el, styleObj), lines 491-507: the inline style after it; setting the empty
\* string removes a property, and fill is set with the important priority
apply(st, obj) ==
    [k \in DOMAIN st |->
        IF k = "fillImportant"
        THEN (IF obj["fill"] = Absent THEN st[k] ELSE obj["fill"] \notin {NullV, ""})
        ELSE IF k \notin StyleKeys \/ obj[k] = Absent THEN st[k]
        ELSE IF obj[k] = NullV THEN (IF Removable(k) THEN "" ELSE st[k])
        ELSE obj[k]]

ShadowUrl == "url(#drop-shadow)"

\* regionHoverStyles[name] || hoverStyle
styleToApply(e, name) ==
    IF e.regionHoverStyles[name].has THEN e.regionHoverStyles[name].obj ELSE e.hoverStyle

\* lines 569-575 and 513-518: the hover style, and the shadow filter when enabled
hoverStyled(st, e, name) ==
    LET s1 == apply(st, styleToApply(e, name))
    IN  IF e.shadow THEN [s1 EXCEPT !["filter"] = ShadowUrl] ELSE s1

\* mutant: only fill and the filter are restored
restoredFillOnly(st, orig, e) ==
    LET s2 == [st EXCEPT !["fill"] = orig["fill"], !["fillImportant"] = orig["fill"] # ""]
    IN  IF e.shadow THEN [s2 EXCEPT !["filter"] = orig["filter"]] ELSE s2
\* mutant: nothing is restored
restoredNothing(st, orig, e) == st
\* lines 594-602 and 524-532: the snapshot applied, fill once more with its
\* priority, and the filter when the shadow is enabled
restored(st, orig, e) ==
    LET s1 == apply(st, orig)
        s2 == [s1 EXCEPT !["fill"] = orig["fill"], !["fillImportant"] = orig["fill"] # ""]
    IN  IF e.shadow THEN [s2 EXCEPT !["filter"] = orig["filter"]] ELSE s2

\* parent.appendChild(x): x becomes the last child
RECURSIVE without(_, _)
without(z, x) ==
    IF z = <<>> THEN <<>>
    ELSE IF Head(z) = x THEN without(Tail(z), x)
    ELSE <<Head(z)>> \o without(Tail(z), x)
raise(z, x) == Append(without(z, x), x)

\* lines 556-566 and 628-638: every inner city with a path is raised, in key order
RECURSIVE raiseInner(_, _, _, _, _)
\* mutant: the inner cities are left where they are
raiseInnerNone(z, order, i, inner, present) == z
raiseInner(z, order, i, inner, present) ==
    IF i > Len(order) THEN z
    ELSE raiseInner(IF order[i] \in inner /\ order[i] \in present THEN raise(z, order[i]) ELSE z,
                    order, i + 1, inner, present)

\* mutant: the selected path is not raised again
enterOrderNoSelected(z, name, sel, e, present) ==
    IF name \in e.innerCities THEN z
    ELSE raiseInner(raise(z, name), CNames, 1, e.innerCities, present)
\* lines 546-567: the stacking order after mouseenter on name
enterOrder(z, name, sel, e, present) ==
    IF name \in e.innerCities THEN z
    ELSE LET z1 == raise(z, name)
             z2 == IF sel # NoPath THEN raise(z1, sel) ELSE z1
         IN  raiseInner(z2, CNames, 1, e.innerCities, present)

\* mutant: the previous selection is never restored
shouldDeselectNever(sel, p) == FALSE
\* line 614: selectedPath && selectedPath !== p
shouldDeselect(sel, p) == sel # NoPath /\ sel # p

\* line 676: e.target === svg || e.target.tagName === 'svg'
deselectsOn(targetKind) == targetKind \in {"root", "othersvg"}

\* line 534: selectedPath = null
afterDeselect(sel) == NoPath

(***************************************************************************)
(* Spec: the events of one rendered and bound map (KorMapChartES5)         *)
(***************************************************************************)
Siblings == CNames \o <<"#labels">>

HoverStyles ==
    {StyleObj([opacity |-> "0.8", cursor |-> "pointer"]),
     StyleObj([opacity |-> "0.9", stroke |-> "#f00", strokeDasharray |-> "4"])}
NoRegionStyle == [has |-> FALSE, obj |-> StyleObj(<<>>)]
RegionHoverStyleMaps ==
    {[n \in CNameSet |-> NoRegionStyle],
     [n \in CNameSet |->
        IF n = "A" THEN [has |-> TRUE, obj |-> StyleObj([fill |-> "#ffcccc", strokeWidth |-> "2"])]
        ELSE NoRegionStyle]}
EventOptions ==
    {[absent |-> FALSE, hoverStyle |-> h, regionHoverStyles |-> rh, shadow |-> sh,
      innerCities |-> ic] :
        h \in HoverStyles, rh \in RegionHoverStyleMaps, sh \in BOOLEAN,
        ic \in {{}, {"C"}, {"B", "C"}}}

InterData ==
    [k \in DataKeySet |->
        CASE k = "A" -> Num(9) [] k = "B" -> Num(3) [] k = "C" -> Null [] OTHER -> Undefined]

\* the inline style of a path after _clearSvgFillStyles and _paintRegions
PaintedStyle(color) ==
    [stroke |-> "", strokeWidth |-> "", opacity |-> "", cursor |-> "", filter |-> "",
     fill |-> color, fillImportant |-> TRUE, strokeDasharray |-> "", pointerEvents |-> ""]

\* lines 656-663: the snapshot of a path's inline style
snapshot(st) ==
    StyleObj([stroke |-> st["stroke"], strokeWidth |-> st["strokeWidth"],
              opacity |-> st["opacity"], cursor |-> st["cursor"],
              filter |-> st["filter"], fill |-> st["fill"]])

\* the state render leaves (lines 729-732): painted, labelled, bound
Init ==
    /\ thresholds = <<>>
    /\ colors = <<>>
    /\ data = InterData
    /\ fill = paintRegions(CNameSet, [n \in CNameSet |-> TRUE], data, thresholds, colors,
                           [n \in CNameSet |-> ""])
    /\ colorPc = "painted"
    /\ elems = CNameSet
    /\ regionBox \in RegionLayouts
    /\ unmapped = {}
    /\ viewBox = NoAttr
    /\ calloutOpts = [absent |-> TRUE]
    /\ bbox = NoFrame
    /\ group = <<>>
    /\ passes = 0
    /\ vbLog = <<viewBox>>
    /\ variant = "ES5"
    /\ opts = [NoOpts EXCEPT !.mode = "normal"]
    /\ mountOk = TRUE
    /\ mount = [cleared |-> TRUE, styled |-> TRUE, children |-> <<"svg">>]
    /\ loadStarted = TRUE
    /\ renderPc = "done"
    /\ error = ""
    /\ steps = <<"clear", "css", "load", "append", "clearfill", "paint", "labels", "bind">>
    /\ labels = labelsFrom(CNames, 1, elems, regionBox, opts.labels)
    /\ bound = boundFrom(CNames, 1, elems)
    /\ winListeners = 1
    /\ barRows = <<>>
    /\ calls = <<>>
    /\ pieData = [absent |-> TRUE]
    /\ pies = <<>>
    /\ ev \in EventOptions
    /\ originalStyles = [n \in CNameSet |-> snapshot(PaintedStyle(fill[n]))]
    /\ style = [n \in CNameSet |-> [PaintedStyle(fill[n]) EXCEPT !["pointerEvents"] = "auto"]]
    /\ selectedPath = NoPath
    /\ zorder = Siblings
    /\ hover = {}
    /\ selMark = {}
    /\ lastEvent = [type |-> "none", on |-> ""]
    /\ callbacks = <<>>
    /\ prevSelected = NoPath
    /\ prevStyle = <<>>
    /\ focused = NoPath

StaticVars == <<colorVars, calloutVars, renderVars, ev, originalStyles, focused>>

\* the mouseenter handler of a bound region, lines 539-580
MouseEnter(r) ==
    /\ r \in bound
    /\ zorder' = enterOrder(zorder, r, selectedPath, ev, elems)
    /\ style' = [style EXCEPT ![r] = hoverStyled(@, ev, r)]
    /\ hover' = hover \cup {r}
    /\ lastEvent' = [type |-> "enter", on |-> r]
    /\ callbacks' = <<[cb |-> "onRegionEnter", name |-> r]>>
    /\ prevSelected' = selectedPath
    /\ prevStyle' = style[r]
    /\ UNCHANGED <<selectedPath, selMark>>
    /\ UNCHANGED StaticVars

\* mutant: the selected region is reverted like any other
leaveKeepsStyleNever(p, sel) == FALSE
\* line 587: p === selectedPath
leaveKeepsStyle(p, sel) == p = sel

\* the mouseleave handler, lines 582-607
MouseLeave(r) ==
    /\ r \in bound
    /\ style' = IF leaveKeepsStyle(r, selectedPath) THEN style
                ELSE [style EXCEPT ![r] = restored(@, originalStyles[r], ev)]
    /\ hover' = hover \ {r}
    /\ lastEvent' = [type |-> "leave", on |-> r]
    /\ callbacks' = <<[cb |-> "onRegionLeave", name |-> r]>>
    /\ prevSelected' = selectedPath
    /\ prevStyle' = style[r]
    /\ UNCHANGED <<selectedPath, selMark, zorder>>
    /\ UNCHANGED StaticVars

\* deselectRegion(), lines 521-535, on the state <<style, selectedPath, selMark>>
deselectRegion(st, sel, marks) ==
    IF sel = NoPath THEN [style |-> st, sel |-> sel, marks |-> marks]
    ELSE [style |-> [st EXCEPT ![sel] = restored(@, originalStyles[sel], ev)],
          sel |-> afterDeselect(sel),
          marks |-> marks \ {sel}]

\* the window click listener, lines 674-679
windowClick(st, sel, marks, targetKind) ==
    IF deselectsOn(targetKind) THEN deselectRegion(st, sel, marks)
    ELSE [style |-> st, sel |-> sel, marks |-> marks]

\* a click on a bound region: its click handler, lines 609-644, and then the window
\* listener, which the event reaches with the path as its target
Click(r) ==
    /\ r \in bound
    /\ LET d == IF shouldDeselect(selectedPath, r)
                THEN deselectRegion(style, selectedPath, selMark)
                ELSE [style |-> style, sel |-> selectedPath, marks |-> selMark]
           doSelect == d.sel # r
           s == IF doSelect
                THEN [style |-> [d.style EXCEPT ![r] = hoverStyled(@, ev, r)],
                      sel |-> r, marks |-> d.marks \cup {r}]
                ELSE d
           w == windowClick(s.style, s.sel, s.marks, "path")
       IN  /\ style' = w.style
           /\ selectedPath' = w.sel
           /\ selMark' = w.marks
           /\ zorder' = IF doSelect
                        THEN raiseInner(raise(zorder, r), CNames, 1, ev.innerCities, elems)
                        ELSE zorder
    /\ lastEvent' = [type |-> "click", on |-> r]
    /\ callbacks' = <<[cb |-> "onRegionClick", name |-> r]>>
    /\ prevSelected' = selectedPath
    /\ prevStyle' = style[r]
    /\ UNCHANGED hover
    /\ UNCHANGED StaticVars

\* a click outside the regions: on the root svg of this map, on another svg element
\* of the document, or on an element that is no svg
WindowClick(targetKind) ==
    /\ winListeners = 1
    /\ LET w == windowClick(style, selectedPath, selMark, targetKind)
       IN  /\ style' = w.style
           /\ selectedPath' = w.sel
           /\ selMark' = w.marks
    /\ lastEvent' = [type |-> "winclick", on |-> targetKind]
    /\ callbacks' = <<>>
    /\ prevSelected' = selectedPath
    /\ prevStyle' = <<>>
    /\ UNCHANGED <<zorder, hover>>
    /\ UNCHANGED StaticVars

Next ==
    \/ \E r \in CNameSet : MouseEnter(r)
    \/ \E r \in CNameSet : MouseLeave(r)
    \/ \E r \in CNameSet : Click(r)
    \/ \E t \in {"root", "othersvg", "other"} : WindowClick(t)

Spec == Init /\ [][Next]_vars

(***************************************************************************)
(* SpecAccess: hover and focus on the regions of the accessible variant    *)
(* (part_002, #enableInteractions)                                         *)
(***************************************************************************)
\* the names of codeMap whose path #enableInteractions found and bound
AccessRegions == {"A", "B"}

\* lines 76-85: the interactions options after defaults; hoverOpacity null is kept
\* (a default applies to undefined only)
InteractionOptions ==
    {[hoverStroke |-> hs, hoverStrokeWidth |-> hw, hoverOpacity |-> ho, raiseOnHover |-> ro] :
        hs \in {"#111827", "red"}, hw \in {2, 3}, ho \in {Num(95), Null}, ro \in BOOLEAN}

\* the inline stroke, stroke-width and opacity of a path before it is bound
InlineStyles ==
    {[stroke |-> st, strokeWidth |-> sw, opacity |-> ""] : st \in {"", "#fff"}, sw \in {"", "1"}}

\* String(hoverOpacity), hundredths
opacityString(x) == "0." \o ToString(x.v)

\* lines 113-115: what enter does to the path's inline style
enterStyle(st, e) ==
    [st EXCEPT !.stroke = e.hoverStroke,
               !.strokeWidth = ToString(e.hoverStrokeWidth),
               !.opacity = IF IsNullish(e.hoverOpacity) THEN @ ELSE opacityString(e.hoverOpacity)]

\* lines 122-124: what leave does to the path's inline style
leaveStyle(st, base) ==
    [st EXCEPT !.stroke = base.stroke, !.strokeWidth = base.strokeWidth,
               !.opacity = base.opacity]

\* the svg after #enableInteractions: every path bound, its style saved in dataset
InitAccess ==
    /\ ColorIdle
    /\ CalloutIdle
    /\ RenderIdle
    /\ ev \in InteractionOptions
    /\ \E base \in InlineStyles :
          /\ style = [n \in AccessRegions |-> base]
          /\ originalStyles = [n \in AccessRegions |-> base]
    /\ selectedPath = NoPath
    /\ zorder = <<"A", "B">>
    /\ hover = {}
    /\ selMark = {}
    /\ lastEvent = [type |-> "none", on |-> ""]
    /\ callbacks = <<>>
    /\ prevSelected = NoPath
    /\ prevStyle = <<>>
    /\ focused = NoPath

AccessStatic == <<colorVars, calloutVars, renderVars, ev, originalStyles, selectedPath,
                  selMark, prevSelected>>

\* lines 111-119: enter, the listener of mouseenter and of focus
enter(r, type) ==
    /\ style' = [style EXCEPT ![r] = enterStyle(@, ev)]
    /\ zorder' = IF ev.raiseOnHover THEN raise(zorder, r) ELSE zorder
    /\ lastEvent' = [type |-> type, on |-> r]
    /\ callbacks' = <<[cb |-> "onRegionEnter", name |-> r]>>
    /\ prevStyle' = style[r]

\* lines 120-126: leave, the listener of mouseleave and of blur
leave(r, type) ==
    /\ style' = [style EXCEPT ![r] = leaveStyle(@, originalStyles[r])]
    /\ lastEvent' = [type |-> type, on |-> r]
    /\ callbacks' = <<[cb |-> "onRegionLeave", name |-> r]>>
    /\ prevStyle' = style[r]
    /\ UNCHANGED zorder

\* line 137: the pointer moves onto r
AccessMouseEnter(r) ==
    /\ hover = {}
    /\ enter(r, "mouseenter")
    /\ hover' = {r}
    /\ UNCHANGED focused
    /\ UNCHANGED AccessStatic

\* line 138: the pointer moves off r
AccessMouseLeave(r) ==
    /\ r \in hover
    /\ leave(r, "mouseleave")
    /\ hover' = hover \ {r}
    /\ UNCHANGED focused
    /\ UNCHANGED AccessStatic

\* line 139: r receives keyboard focus (tabindex 0, line 92)
AccessFocus(r) ==
    /\ focused = NoPath
    /\ enter(r, "focus")
    /\ focused' = r
    /\ UNCHANGED hover
    /\ UNCHANGED AccessStatic

\* line 140: r loses keyboard focus
AccessBlur(r) ==
    /\ focused = r
    /\ leave(r, "blur")
    /\ focused' = NoPath
    /\ UNCHANGED hover
    /\ UNCHANGED AccessStatic

NextAccess ==
    \/ \E r \in AccessRegions : AccessMouseEnter(r)
    \/ \E r \in AccessRegions : AccessMouseLeave(r)
    \/ \E r \in AccessRegions : AccessFocus(r)
    \/ \E r \in AccessRegions : AccessBlur(r)

SpecAccess == InitAccess /\ [][NextAccess]_vars

(***************************************************************************)
(* Claims on the colour scale                                              *)
(***************************************************************************)
\* the statement's own reading of the scale: clamp, first threshold met in array
\* order, that place's colour, else the last colour of the list
ClaimClamp(r) == IF r < 0 THEN 0 ELSE IF r > One THEN One ELSE r
ClaimColor(th, cs, r) ==
    LET met == {i \in 1..Len(th) : ClaimClamp(r) >= th[i]}
        first == CHOOSE i \in met : \A j \in met : i <= j
    IN  IF met = {} THEN cs[Len(cs)]
        ELSE IF first \in 1..Len(cs) THEN cs[first] ELSE cs[Len(cs)]

\* C6: for every finite rate r, colorFor(r) is the colour paired with the first
\* threshold, in array order, that clamp(r,0,1) meets or exceeds (a tie selects that
\* threshold's colour), and the last colour of the list when no threshold is met or
\* the matched index has no colour; colorFor(1.5) = colorFor(1.0) and
\* colorFor(-0.3) = colorFor(0.0).
C6_FirstThresholdMet ==
    colorPc = "painted" =>
        /\ \A n \in ColorRegions :
              IsNum(data[n]) =>
                  fill[n] = ClaimColor(EffTh(thresholds), EffCs(colors), data[n].v)
        /\ colorForRate(thresholds, colors, Num(15)) = colorForRate(thresholds, colors, Num(10))
        /\ colorForRate(thresholds, colors, Num(-3)) = colorForRate(thresholds, colors, Num(0))

\* a tie (0.5 against the threshold 0.5) and an out-of-range rate (1.5) were painted
C6_Witness ==
    /\ colorPc = "painted"
    /\ thresholds = <<8, 5>>
    /\ colors = <<"c0", "c1", "c2">>
    /\ data["A"] = Num(5) /\ fill["A"] = "c1"
    /\ data["B"] = Num(15) /\ fill["B"] = "c0"

C7_Setup ==
    /\ colorPc = "painted"
    /\ thresholds = <<8, 6, 4, 2>>
    /\ colors = <<"c0", "c1", "c2", "c3", "c4">>
    /\ data["A"] = Num(9)
    /\ data["B"] = Num(3)

\* C7 as stated: with thresholds [0.8,0.6,0.4,0.2] and colours [c0..c4], region A
\* with rate 0.9 is painted c0 and region B with rate 0.3 is painted c2.
C7_Original == C7_Setup => (fill["A"] = "c0" /\ fill["B"] = "c2")

\* C7 as amended: with thresholds [0.8,0.6,0.4,0.2] and colours [c0..c4], region A
\* with rate 0.9 is painted c0 and region B with rate 0.3 is painted c3 (the first
\* threshold 0.3 meets is 0.2, the fourth, whose colour is c3).
C7_Scenario == C7_Setup => (fill["A"] = "c0" /\ fill["B"] = "c3")

C7_Witness ==
    /\ C7_Setup
    /\ fill = [n \in ColorRegions |-> IF n = "A" THEN "c0" ELSE "c3"]

\* the rate of a datum is unknown: no datum, null, NaN, or a record whose rate is
UnknownRate(d) ==
    \/ d.t \in {"null", "undefined", "nan"}
    \/ d.t = "rec" /\ d.rate.t \in {"null", "undefined", "nan"}

\* C8: colorFor(null), colorFor(undefined) and colorFor(NaN) all return the fallback
\* colour (the last entry of the colour list), so a region with no datum, or a datum
\* whose rate is null, is painted with the fallback colour.
C8_UnknownIsFallback ==
    colorPc = "painted" =>
        /\ colorForRate(thresholds, colors, Null) = Fallback(EffCs(colors))
        /\ colorForRate(thresholds, colors, Undefined) = Fallback(EffCs(colors))
        /\ colorForRate(thresholds, colors, NaN) = Fallback(EffCs(colors))
        /\ \A n \in ColorRegions :
              UnknownRate(data[n]) => fill[n] = Fallback(EffCs(colors))

(***************************************************************************)
(* Claims on the viewport of callout routing                               *)
(***************************************************************************)
\* P = options.padding + options.margin, an absent option counting 0
ClaimP ==
    (IF calloutOpts.padding.t = "num" THEN calloutOpts.padding.v ELSE 0)
    + (IF calloutOpts.margin.t = "num" THEN calloutOpts.margin.v ELSE 0)
\* the viewport the surface had before the first pass: the numbers of its viewBox,
\* or the frame when it had none
ClaimBefore == IF vbLog[1] = NoAttr THEN <<bbox.x, bbox.y, bbox.w, bbox.h>> ELSE vbLog[1].tok
ClaimAfterFirst == vbLog[2].tok

\* C9 as stated: after one pass with frame width W and P = padding + margin, the
\* viewport width is exactly W + 2P, its left edge has decreased by P and its
\* vertical origin and height are unchanged, whether or not the surface had a viewBox
\* (stated for a map whose regions A and B exist).
C9_Original ==
    (passes >= 1 /\ {"A", "B"} \subseteq elems) =>
        /\ ClaimAfterFirst[3] = JAdd(bbox.w, Num(2 * ClaimP))
        /\ ClaimAfterFirst[1] = JSub(ClaimBefore[1], Num(ClaimP))
        /\ ClaimAfterFirst[2] = ClaimBefore[2]
        /\ ClaimAfterFirst[4] = ClaimBefore[4]

\* C9 as amended: after one pass the viewport width is exactly V + 2P, where V is
\* the width of the viewport before the pass (the width of the surface's viewBox
\* when it had one, written as whitespace-separated numbers, and the frame width W
\* when the viewBox was seeded from the frame); the left edge has decreased by P
\* and the vertical origin and height are unchanged.
C9_ViewportExpanded ==
    (passes >= 1 /\ vbLog[1].sep # "comma") =>
        /\ ClaimAfterFirst[3] = JAdd(ClaimBefore[3], Num(2 * ClaimP))
        /\ ClaimAfterFirst[1] = JSub(ClaimBefore[1], Num(ClaimP))
        /\ ClaimAfterFirst[2] = ClaimBefore[2]
        /\ ClaimAfterFirst[4] = ClaimBefore[4]

\* one pass over a surface whose viewBox (0 0 400 300) is wider than the frame (300)
C9_Witness ==
    /\ passes = 1
    /\ vbLog[1] = [sep |-> "space", tok |-> <<Num(0), Num(0), Num(400), Num(300)>>]
    /\ bbox.w = Num(300)
    /\ ClaimP = 32
    /\ viewBox = [sep |-> "space", tok |-> <<Num(-32), Num(0), Num(464), Num(300)>>]

\* C10: a second invocation of callout routing on the same surface does not compound
\* the padding: the viewport after it equals the viewport after the first (stated
\* for a map whose regions A and B exist).
C10_NoCompounding == (passes >= 2 /\ {"A", "B"} \subseteq elems) => vbLog[3] = vbLog[2]

\* the anchor of a callout: the centre of the region's box plus its offset
ClaimAnchorX(n) ==
    regionBox[n].x + (regionBox[n].width \div 2) + calloutOpts.offsets[n][1]
ClaimPad == IF calloutOpts.padding.t = "num" THEN calloutOpts.padding.v ELSE 0
ClaimRouted(P) ==
    \A i \in 1..Len(group) :
        LET g == group[i]
            left == ClaimAnchorX(g.name) < bbox.cx.v
        IN  /\ g.leftSide = left
            /\ g.labelX = IF left THEN bbox.x.v - P ELSE bbox.x.v + bbox.w.v + P

\* C11 as stated: a region is left-side iff its anchor x is strictly less than
\* frame.centerX; a left-side callout routes to frame.x - P and a right-side callout
\* to frame.x + frame.width + P, where P = options.padding + options.margin.
C11_Original == ClaimRouted(ClaimP)

\* C11 as amended: a region is left-side iff its anchor x is strictly less than
\* frame.centerX; a left-side callout routes to frame.x - options.padding and a
\* right-side callout to frame.x + frame.width + options.padding; options.margin
\* widens the viewport only and does not move the routing x.
C11_Routing == ClaimRouted(ClaimPad)

\* frame x = 0, width 300, centre 150, padding 20 and a margin of 12: A (anchor 50)
\* routes to -20, B (anchor 250) to 320, and C, whose anchor is on the centre line,
\* to the right
C11_Witness ==
    /\ passes = 1
    /\ elems = CNameSet
    /\ bbox.x = Num(0) /\ bbox.w = Num(300) /\ bbox.cx = Num(150)
    /\ calloutOpts.padding = Num(20) /\ calloutOpts.margin = Num(12)
    /\ ClaimAnchorX("A") = 50 /\ ClaimAnchorX("C") = 150
    /\ group[1].name = "A" /\ group[1].leftSide /\ group[1].labelX = -20
    /\ group[2].name = "B" /\ ~group[2].leftSide /\ group[2].labelX = 320
    /\ group[3].name = "C" /\ ~group[3].leftSide /\ group[3].labelX = 320

(***************************************************************************)
(* Claims on render                                                        *)
(***************************************************************************)
ConfigErrors == {"mode", "bar", "callouts"}

\* C3: in the strict variants, when mode is missing, or mode is 'rate+bars' without
\* bar, or 'count+callouts' without callouts, render fails before any rendering side
\* effect: when the failure is reported the mount has not been cleared, restyled or
\* populated and no document load has been started.
C3_FailsBeforeSideEffects ==
    (renderPc = "failed" /\ error \in ConfigErrors) =>
        (mount = OldMount /\ ~loadStarted)

StepIndex(name) == CHOOSE i \in 1..Len(steps) : steps[i] = name
InSteps(name) == \E i \in 1..Len(steps) : steps[i] = name
LabelNames == {labels[i].name : i \in 1..Len(labels)}
GroupNames == {group[i].name : i \in 1..Len(group)}
BigEnough(n) == regionBox[n].width >= 16 /\ regionBox[n].height >= 12

\* C4: a name whose handle resolves to no element is skipped by painting, label
\* placement, callout routing and interaction binding without any error, and every
\* other region is still painted, labelled (its box passing the size gate), routed
\* (when callouts are built) and bound.
C4_MissingSkipped ==
    /\ (renderPc = "failed" => error \in ConfigErrors \cup {"mount", "formatter"})
    /\ renderPc = "done" =>
        \A n \in CNameSet :
            /\ n \notin elems =>
                  /\ fill[n] = ""
                  /\ n \notin LabelNames
                  /\ n \notin bound
                  /\ n \notin GroupNames
            /\ n \in elems =>
                  /\ fill[n] # ""
                  /\ (BigEnough(n) => n \in LabelNames)
                  /\ n \in bound
                  /\ (InSteps("callouts") => n \in GroupNames)

\* a callout render of a map whose middle name B resolves to no element
C4_Witness ==
    /\ renderPc = "done"
    /\ elems = {"A", "C"}
    /\ InSteps("callouts")
    /\ GroupNames = {"A", "C"}
    /\ bound = {"A", "C"}
    /\ LabelNames = {"A", "C"}
    /\ fill["B"] = ""

\* the mode the statement speaks of: declared, or inferred from bar / callouts
ClaimMode ==
    IF opts.mode # "absent" THEN opts.mode
    ELSE IF opts.bar THEN "rate+bars"
    ELSE IF ~calloutOpts.absent THEN "count+callouts"
    ELSE "rate+bars"

\* C5: every successful render performs, in this order, paint, label placement,
\* interaction binding and then exactly one of {bar list, callouts, nothing}, chosen
\* by the declared or inferred mode; bars and callouts are never both produced and
\* mode 'normal' produces neither.
C5_Orchestration ==
    renderPc = "done" =>
        /\ InSteps("paint") /\ InSteps("labels") /\ InSteps("bind")
        /\ StepIndex("paint") < StepIndex("labels")
        /\ StepIndex("labels") < StepIndex("bind")
        /\ \A i \in 1..Len(steps) :
              steps[i] \in {"bars", "callouts"} => i > StepIndex("bind")
        /\ ~(InSteps("bars") /\ InSteps("callouts"))
        /\ (ClaimMode = "rate+bars" => InSteps("bars"))
        /\ (ClaimMode = "count+callouts" => InSteps("callouts"))
        /\ (ClaimMode = "normal" => ~InSteps("bars") /\ ~InSteps("callouts"))

(***************************************************************************)
(* Claims on selection                                                     *)
(***************************************************************************)
Selected == IF selectedPath = NoPath THEN {} ELSE {selectedPath}

\* C1: at most one region of a map is selected at any time: the regions carrying the
\* selected state are exactly the one recorded as selected, a click on a region other
\* than the selected one leaves the clicked region as the only selected one, and a
\* click on the root svg of the map leaves none selected.
C1_SingleSelection ==
    /\ Cardinality(selMark) <= 1
    /\ selMark = Selected
    /\ lastEvent.type = "click" => selMark \subseteq {lastEvent.on}
    /\ (lastEvent.type = "winclick" /\ lastEvent.on = "root") => selMark = {}

\* B was clicked while A was the selection: A was raised above the labels by its own
\* click, B above A, and B alone is selected
C1_Witness ==
    /\ lastEvent = [type |-> "click", on |-> "B"]
    /\ selectedPath = "B"
    /\ selMark = {"B"}
    /\ zorder = <<"C", "#labels", "A", "B">>
    /\ hover = {}
    /\ style["A"] = [PaintedStyle(fill["A"]) EXCEPT !["pointerEvents"] = "auto"]

\* C2: a selected region stays selected across every enter, every leave and every
\* click on itself; which region is selected changes only by a click on a different
\* region or by a click whose target is the root svg of this map.
C2_SelectionEndsOnlyBy ==
    [][(selectedPath # NoPath /\ selectedPath' # selectedPath)
        => \/ (lastEvent'.type = "click" /\ lastEvent'.on # selectedPath)
           \/ lastEvent' = [type |-> "winclick", on |-> "root"]]_vars

(***************************************************************************)
(* Claims on the bar list                                                  *)
(***************************************************************************)
BarsBuilt == renderPc = "done" /\ InSteps("bars")
RowNames == [i \in 1..Len(barRows) |-> barRows[i].name]
\* the rate of a datum: the bare number or the record's rate field
ClaimRateOf(k) == IF data[k].t = "rec" THEN data[k].rate ELSE data[k]
ClaimHasRate(k) == ClaimRateOf(k).t = "num"
\* k ranks at or above l
ClaimRanksAtOrAbove(k, l) ==
    \/ ~ClaimHasRate(l)
    \/ ClaimHasRate(k) /\ ClaimRateOf(k).v >= ClaimRateOf(l).v

\* C12: the rows of the bar list are the keys of the data, ordered by rate
\* descending, the rate being the bare number or the record's rate field; a datum
\* with a missing rate ranks below every datum with a rate; data {A:0.5, B:null,
\* C:0.9} yields the rows C, A, B.
C12_RowsByRateDescending ==
    BarsBuilt =>
        /\ {RowNames[i] : i \in 1..Len(barRows)} = {k \in DataKeySet : data[k] # Undefined}
        /\ \A i, j \in 1..Len(barRows) :
              i < j => ClaimRanksAtOrAbove(RowNames[i], RowNames[j])
        /\ \A i, j \in 1..Len(barRows) :
              (i < j /\ ClaimHasRate(RowNames[j])) => ClaimHasRate(RowNames[i])
        /\ (data["A"] = Num(5) /\ data["B"] = Null /\ data["C"] = Num(9))
              => RowNames = <<"C", "A", "B">>

\* the bar list of data {A:0.5, B:null, C:0.9}
C12_Witness ==
    /\ BarsBuilt
    /\ data["A"] = Num(5) /\ data["B"] = Null /\ data["C"] = Num(9)
    /\ data["X"] = Undefined
    /\ RowNames = <<"C", "A", "B">>

\* C13: a bar row whose rate is unknown (datum null, or a record without a rate)
\* shows the placeholder "-" as its value label.
C13_UnknownRatePlaceholder ==
    BarsBuilt =>
        \A i \in 1..Len(barRows) :
            ~ClaimHasRate(barRows[i].name) => barRows[i].value = "-"

\* C16: when region B is clicked while a different region A is selected, A is
\* deselected and its snapshot restored before B's selection style is applied: after
\* the click B is the only selected region and A's snapshotted properties equal
\* their bind-time values.
C16_ClickMovesSelection ==
    (lastEvent.type = "click" /\ prevSelected \notin {NoPath, lastEvent.on}) =>
        /\ selectedPath = lastEvent.on
        /\ selMark = {lastEvent.on}
        /\ snapshot(style[prevSelected]) = originalStyles[prevSelected]
        /\ style[lastEvent.on] = hoverStyled(prevStyle, ev, lastEvent.on)

\* B clicked while A, which has a hover style of its own changing fill, was selected
\* with its shadow
C16_Witness ==
    /\ lastEvent = [type |-> "click", on |-> "B"]
    /\ prevSelected = "A"
    /\ selectedPath = "B"
    /\ ev.shadow /\ ev.regionHoverStyles["A"].has
    /\ style["A"]["fill"] = fill["A"] /\ style["A"]["fillImportant"] /\ style["A"]["filter"] = ""
    /\ style["B"]["filter"] = ShadowUrl

\* C17: a leave event on the selected region changes none of its style properties
\* and leaves the selection and the stacking order unchanged; its only effect is one
\* onRegionLeave callback.
C17_LeaveOnSelected ==
    [][(lastEvent'.type = "leave" /\ lastEvent'.on = selectedPath)
        => /\ style' = style
           /\ selectedPath' = selectedPath
           /\ selMark' = selMark
           /\ zorder' = zorder
           /\ callbacks' = <<[cb |-> "onRegionLeave", name |-> selectedPath]>>]_vars

\* the selected region A, wearing its selection style and shadow, was left
C17_Witness ==
    /\ lastEvent = [type |-> "leave", on |-> "A"]
    /\ prevSelected = "A"
    /\ selectedPath = "A"
    /\ ev.shadow
    /\ style["A"] = prevStyle
    /\ style["A"]["filter"] = ShadowUrl
    /\ style["A"] # [PaintedStyle(fill["A"]) EXCEPT !["pointerEvents"] = "auto"]
    /\ callbacks = <<[cb |-> "onRegionLeave", name |-> "A"]>>

BindStyle(n) == [PaintedStyle(fill[n]) EXCEPT !["pointerEvents"] = "auto"]

\* C18: for a region that is not selected, Enter followed by Leave restores the
\* region's style exactly: for every hover style each property that Enter changed
\* is back at its pre-Enter value, fill has its important priority again and no
\* shadow filter remains (stated for a region that wore its bind-time style when
\* entered).
C18_EnterLeaveRestores ==
    [][(/\ lastEvent.type = "enter"
        /\ prevStyle = BindStyle(lastEvent.on)
        /\ selectedPath # lastEvent.on
        /\ lastEvent'.type = "leave"
        /\ lastEvent'.on = lastEvent.on)
        => style'[lastEvent.on] = prevStyle]_vars

Pos(x) == CHOOSE i \in 1..Len(zorder) : zorder[i] = x

\* C19: after a click that selects a region R outside the always-on-top set, R is
\* raised first and the always-on-top regions after it: every always-on-top region
\* is above R and R is above every other region.
C19_SelectedBelowAlwaysOnTop ==
    (/\ lastEvent.type = "click"
     /\ prevSelected # lastEvent.on
     /\ lastEvent.on \notin ev.innerCities) =>
        /\ \A c \in ev.innerCities : Pos(c) > Pos(lastEvent.on)
        /\ \A o \in CNameSet \ (ev.innerCities \cup {lastEvent.on}) :
              Pos(lastEvent.on) > Pos(o)

\* A selected by a click while B was the selection and C is always-on-top
C19_Witness ==
    /\ lastEvent = [type |-> "click", on |-> "A"]
    /\ prevSelected = "B"
    /\ selectedPath = "A"
    /\ ev.innerCities = {"C"}
    /\ zorder = <<"#labels", "B", "A", "C">>

\* C20: on every Enter event the entered region is raised to the top of its sibling
\* stack: it is the topmost sibling once the handler completes (stated for a map
\* with no always-on-top regions).
C20_EnteredIsTopmost ==
    (lastEvent.type = "enter" /\ ev.innerCities = {}) =>
        Pos(lastEvent.on) = Len(zorder)

(***************************************************************************)
(* Claims on selection across maps                                         *)
(***************************************************************************)
\* C14: selection state belongs to one render session: an event dispatched to
\* another rendered map (here: a click on that map's root svg, which is an svg
\* element other than this map's root, or on one of its regions, which is no svg
\* element) changes neither which region of this map is selected nor any style of
\* this map's regions.
C14_OtherMapDoesNotInterfere ==
    [][(lastEvent'.type = "winclick" /\ lastEvent'.on \in {"othersvg", "other"})
        => (selectedPath' = selectedPath /\ style' = style /\ selMark' = selMark)]_vars

(***************************************************************************)
(* Claims on failed renders                                                *)
(***************************************************************************)
\* C15: if a render fails at any step (configuration check, painting, labelling, bar
\* building, callout routing including a throwing caller-supplied formatter), then
\* after the failure no region has interaction handlers bound and no
\* background-click listener is registered.
C15_FailedRenderBindsNothing ==
    renderPc = "failed" => (bound = {} /\ winListeners = 0)

(***************************************************************************)
(* Claims on styles at rest                                                *)
(***************************************************************************)
\* C21: after any sequence of enter, leave, region-click and background-click
\* events, every region that is neither hovered nor selected has each snapshotted
\* style property (stroke, stroke-width, opacity, cursor, filter, fill) equal to its
\* bind-time value, and its fill is the colour painted from its rate.
C21_RestingRegionsKeepBindStyle ==
    \A n \in bound :
        (n \notin hover /\ n # selectedPath) =>
            /\ snapshot(style[n]) = originalStyles[n]
            /\ snapshot(style[n]) = snapshot(BindStyle(n))
            /\ style[n]["fill"] = colorForRate(thresholds, colors, getRate(data, n))
            /\ style[n]["fillImportant"]

\* A, which has a hover style of its own, was selected with a shadow and deselected
\* by a background click, and no region is hovered
C21_Witness ==
    /\ lastEvent = [type |-> "winclick", on |-> "root"]
    /\ prevSelected = "A"
    /\ selectedPath = NoPath
    /\ hover = {}
    /\ ev.shadow /\ ev.regionHoverStyles["A"].has
    /\ Pos("A") > Pos("#labels") /\ Pos("B") > Pos("#labels")

(***************************************************************************)
(* Claims on overlapping renders                                           *)
(***************************************************************************)
CountOf(kind) == Cardinality({i \in 1..Len(mount.children) : mount.children[i] = kind})

\* C22: when two render calls on the same mount overlap (the second is invoked
\* before the first's document load completes), then after both complete the mount
\* contains the output of exactly one render: one map and at most one bar list.
C22_OverlapLeavesOneOutput ==
    (/\ \A i \in CallIds : calls[i].pc = "done"
     /\ \E i \in CallIds : calls[i].overlapped) =>
        (CountOf("svg") = 1 /\ CountOf("barlist") <= 1)

(***************************************************************************)
(* Claims on the monotonicity of the colour scale                          *)
(***************************************************************************)
\* the position of a colour in the colour list
ClaimPosition(cs, c) == CHOOSE i \in 1..Len(cs) : cs[i] = c

\* C23: threshold monotonicity: for any two finite rates r1 >= r2 and any
\* threshold/colour configuration, colorFor(r1) is never at a later position of the
\* colour list (the colour of a lower threshold) than colorFor(r2).
C23_ThresholdMonotonicity ==
    colorPc = "painted" =>
        \A n, m \in ColorRegions :
            (IsNum(data[n]) /\ IsNum(data[m]) /\ data[n].v >= data[m].v) =>
                ClaimPosition(EffCs(colors), fill[n])
                    <= ClaimPosition(EffCs(colors), fill[m])

\* unsorted thresholds: 1.5 (clamped to 1) takes the first colour, 0.3 falls through
\* to the last one
C23_Witness ==
    /\ colorPc = "painted"
    /\ thresholds = <<5, 8>>
    /\ colors = <<"c0", "c1", "c2">>
    /\ data["A"] = Num(15) /\ fill["A"] = "c0"
    /\ data["B"] = Num(3) /\ fill["B"] = "c2"

(***************************************************************************)
(* Claims on the side of a centred region                                  *)
(***************************************************************************)
ClaimCentred(i) == ClaimAnchorX(group[i].name) = bbox.cx.v
ClaimSameSideEveryPass ==
    \A i, j \in 1..Len(group) :
        group[i].name = group[j].name => group[i].leftSide = group[j].leftSide

\* C24 as stated: a region whose anchor x is exactly frame.centerX is assigned to
\* the left side, and to that same side on every repeated routing call with
\* identical input.
C24_Original ==
    /\ \A i \in 1..Len(group) : ClaimCentred(i) => group[i].leftSide
    /\ ClaimSameSideEveryPass

\* C24 as amended: a region whose anchor x is exactly frame.centerX is assigned to
\* the right side (the test anchor < centerX fails for it), its label is anchored
\* at the right margin, and it is assigned to that same side on every repeated
\* routing call with identical input.
C24_CentredGoesRight ==
    /\ \A i \in 1..Len(group) :
          ClaimCentred(i) =>
              /\ ~group[i].leftSide
              /\ group[i].textAnchor = "start"
              /\ group[i].labelX = bbox.x.v + bbox.w.v + ClaimPad
    /\ ClaimSameSideEveryPass

\* two passes over a frame of centre 150 with region C anchored at 150
C24_Witness ==
    /\ passes = 2
    /\ elems = CNameSet
    /\ bbox.cx = Num(150)
    /\ ClaimAnchorX("C") = 150
    /\ Len(group) = 6
    /\ group[3].name = "C" /\ ~group[3].leftSide
    /\ group[6].name = "C" /\ ~group[6].leftSide

(***************************************************************************)
(* Claims on the empty frame                                               *)
(***************************************************************************)
\* C26: with zero regions the aggregator yields an empty frame and callout routing
\* treats it as "no adjustment": it does not fail, emits no callout, and leaves the
\* surface's viewport exactly as it was (no viewBox is set or changed).
C26_EmptyFrameNoAdjustment ==
    (passes >= 1 /\ elems = {} /\ unmapped = {}) =>
        /\ group = <<>>
        /\ vbLog[2] = vbLog[1]

(***************************************************************************)
(* Claims on the frame and the pie glyphs                                  *)
(***************************************************************************)
ClaimMinOf(S) == CHOOSE x \in S : \A o \in S : x <= o
ClaimMaxOf(S) == CHOOSE x \in S : \A o \in S : x >= o
ClaimLefts == {regionBox[n].x : n \in elems}
ClaimRights == {regionBox[n].x + regionBox[n].width : n \in elems}
ClaimTops == {regionBox[n].y : n \in elems}
ClaimBottoms == {regionBox[n].y + regionBox[n].height : n \in elems}

\* C25: the layout frame the callouts measure against is the union bounding box of
\* exactly the painted regions (x, y the minima; width, height the maxima of
\* x+width, y+height minus the minima; centerX = (minX + maxX)/2); no other
\* generated artifact (labels, pie-glyph slices) contributes to it (stated for an
\* svg whose every path is a painted region).
C25_FrameIsUnionOfRegions ==
    (renderPc = "done" /\ elems # {} /\ unmapped = {}) =>
        /\ bbox.x = Num(ClaimMinOf(ClaimLefts))
        /\ bbox.y = Num(ClaimMinOf(ClaimTops))
        /\ bbox.w = Num(ClaimMaxOf(ClaimRights) - ClaimMinOf(ClaimLefts))
        /\ bbox.h = Num(ClaimMaxOf(ClaimBottoms) - ClaimMinOf(ClaimTops))
        /\ bbox.cx = Num((ClaimMinOf(ClaimLefts) + ClaimMaxOf(ClaimRights)) \div 2)

\* C27: buildSlices applied to values whose sum is non-positive (zero or negative)
\* produces an empty glyph: no slices and no error.
C27_NonPositiveSumEmptyGlyph ==
    \A i \in 1..Len(pies) :
        pieTotal(pieData.values[pies[i].name].v, 1) <= 0 => pies[i].slices = <<>>

(***************************************************************************)
(* Claims on the stacking order after Enter                                *)
(***************************************************************************)
PosIn(z, x) == CHOOSE i \in 1..Len(z) : z[i] = x
\* the statement's case: a region outside the always-on-top set is entered while a
\* different region is selected
ClaimEnterBesideSelection ==
    /\ lastEvent'.type = "enter"
    /\ lastEvent'.on \notin ev.innerCities
    /\ selectedPath \notin {NoPath, lastEvent'.on}
ClaimEnterAlwaysOnTop ==
    /\ lastEvent'.type = "enter"
    /\ lastEvent'.on \in ev.innerCities

\* C28 as stated: when a region outside the always-on-top set is entered while a
\* different region is selected, afterwards the selected region is above the
\* entered region and every (other) always-on-top region is above both; when the
\* entered region is itself always-on-top the stacking order is left unchanged.
C28_Original ==
    [][/\ ClaimEnterBesideSelection =>
            /\ PosIn(zorder', selectedPath) > PosIn(zorder', lastEvent'.on)
            /\ \A c \in ev.innerCities \ {selectedPath} :
                  /\ PosIn(zorder', c) > PosIn(zorder', lastEvent'.on)
                  /\ PosIn(zorder', c) > PosIn(zorder', selectedPath)
       /\ ClaimEnterAlwaysOnTop => zorder' = zorder]_vars

\* C28 as amended: the selected region is above the entered region, every
\* always-on-top region is above the entered region, and every always-on-top region
\* is above the selected region when the selected region is not itself
\* always-on-top; when the entered region is itself always-on-top the stacking
\* order is left unchanged.
C28_EnterStacking ==
    [][/\ ClaimEnterBesideSelection =>
            /\ PosIn(zorder', selectedPath) > PosIn(zorder', lastEvent'.on)
            /\ \A c \in ev.innerCities :
                  /\ PosIn(zorder', c) > PosIn(zorder', lastEvent'.on)
                  /\ selectedPath \notin ev.innerCities
                        => PosIn(zorder', c) > PosIn(zorder', selectedPath)
       /\ ClaimEnterAlwaysOnTop => zorder' = zorder]_vars

\* A entered while B is selected and C is always-on-top
C28_Witness ==
    /\ lastEvent = [type |-> "enter", on |-> "A"]
    /\ prevSelected = "B"
    /\ selectedPath = "B"
    /\ ev.innerCities = {"C"}
    /\ zorder = <<"#labels", "A", "B", "C">>

(***************************************************************************)
(* Claims on the keys of the bar list                                      *)
(***************************************************************************)
ClaimRowsOf(k) == Cardinality({i \in 1..Len(barRows) : barRows[i].name = k})

\* C29: the bar list has exactly one row for every key of the data map, whether or
\* not the key has region geometry and whether or not its rate is known, and no row
\* for a name without a datum.
C29_OneRowPerDataKey ==
    BarsBuilt =>
        /\ \A k \in DataKeySet : ClaimRowsOf(k) = IF data[k] # Undefined THEN 1 ELSE 0
        /\ \A i \in 1..Len(barRows) : barRows[i].name \in DataKeySet

\* a bar list with a row for X, which has no geometry, and for B, whose rate is
\* unknown, and none for C, which has geometry and no datum
C29_Witness ==
    /\ BarsBuilt
    /\ "X" \notin CNameSet /\ data["X"] = Num(3)
    /\ data["B"] = Rec(Num(12), Null)
    /\ data["C"] = Undefined /\ "C" \in elems
    /\ ClaimRowsOf("X") = 1 /\ ClaimRowsOf("B") = 1 /\ ClaimRowsOf("C") = 0
    /\ Len(barRows) = 3

(***************************************************************************)
(* Claims on hover and focus in the accessible variant                     *)
(***************************************************************************)
\* the region shows the hover visuals: the hover stroke and stroke width
ClaimShowsHover(r) ==
    /\ style[r].stroke = ev.hoverStroke
    /\ style[r].strokeWidth = ToString(ev.hoverStrokeWidth)

\* C30: in the accessible variant a region shows the hover visuals exactly when the
\* pointer is over it or it has keyboard focus; a mouseleave while it is focused, or
\* a blur while the pointer is over it, does not revert them.
C30_HoverVisualsIffPointerOrFocus ==
    \A r \in AccessRegions : ClaimShowsHover(r) <=> (r \in hover \/ focused = r)

====
